---- MODULE Spec2Model ----
(***************************************************************************)
(* ffigen (src/ffigen.ts): one sequential pass over the c2ffi definition   *)
(* list that fills the resolved-typedef table and the symbol table, then   *)
(* prints the summary and the generated binding source.                    *)
(*                                                                         *)
(* A NativeType is a record [kind, struct]: kind is the FFI type name      *)
(* ("i32", "pointer", "void", ...) or "struct" for an aggregate, whose     *)
(* element list is in the field struct.  null is the "no mapping" result   *)
(* of denoFFIType and Throw the exception outcome of denoFFIParameter.     *)
(* Type tags are c2ffi tags and C identifiers; names that are properties   *)
(* of Object.prototype ("constructor", "toString", ...) are outside the    *)
(* modelled tag domain.                                                    *)
(***************************************************************************)
EXTENDS Integers, Sequences, FiniteSets, TLC

VARIABLES
    symbols,            \* the parsed definition list (line 20)
    i,                  \* position of the for-of loop of line 127
    pc,                 \* "loop" | "aborted" (uncaught throw) | "done"
    resolvedTypeDefs,   \* Map name -> NativeType (line 119)
    symbolSource,       \* Record name -> {parameters, result, doc} (line 121)
    total,
    generated,
    totalTypeDefs,
    generatedTypeDefs,
    unknowns,           \* Map tag -> count (line 125)
    output              \* what lines 203-236 printed, or NoOutput

vars == <<symbols, i, pc, resolvedTypeDefs, symbolSource, total, generated,
          totalTypeDefs, generatedTypeDefs, unknowns, output>>

-----------------------------------------------------------------------------
(* Bounds of the checked inputs *)

MaxDefs == 3

MaxFields == 2

-----------------------------------------------------------------------------
(* Values *)

null == [kind |-> "null", struct |-> <<>>]

Throw == [kind |-> "throw", struct |-> <<>>]

Native(k) == [kind |-> k, struct |-> <<>>]

Aggregate(fs) == [kind |-> "struct", struct |-> fs]

Leaf(t) == [tag |-> t, hasFields |-> FALSE, fields |-> <<>>]

Field(ty) == [type |-> ty]

StructType(tg, fs) == [tag |-> tg, hasFields |-> TRUE, fields |-> fs]

Parameter(tg, ty) == [tag |-> tg, type |-> ty]

MapSet(m, k, v) == [n \in DOMAIN m \cup {k} |-> IF n = k THEN v ELSE m[n]]

EmptyMap == [n \in {} |-> null]

tagMapping ==
    [t \in {"__uint16_t", "__uint32_t", "__uint64_t", "__uint8_t",
            "__int16_t", "__int32_t", "__int64_t", "__int8_t",
            ":int", ":unsigned-int", ":long", ":long-long", ":long-double",
            ":short", ":unsigned", ":unsigned-long", ":unsigned-short",
            ":unsigned-char", ":char", ":pointer", ":function-pointer",
            ":void"} |->
        CASE t = "__uint16_t" -> "u16"
          [] t = "__uint32_t" -> "u32"
          [] t = "__uint64_t" -> "u64"
          [] t = "__uint8_t" -> "u8"
          [] t = "__int16_t" -> "i16"
          [] t = "__int32_t" -> "i32"
          [] t = "__int64_t" -> "i64"
          [] t = "__int8_t" -> "i8"
          [] t = ":int" -> "i32"
          [] t = ":unsigned-int" -> "u32"
          [] t = ":long" -> "i64"
          [] t = ":long-long" -> "i64"
          [] t = ":long-double" -> "f64"
          [] t = ":short" -> "i16"
          [] t = ":unsigned" -> "u32"
          [] t = ":unsigned-long" -> "u64"
          [] t = ":unsigned-short" -> "u16"
          [] t = ":unsigned-char" -> "u8"
          [] t = ":char" -> "u8"
          [] t = ":pointer" -> "pointer"
          [] t = ":function-pointer" -> "pointer"
          [] t = ":void" -> "void"]

-----------------------------------------------------------------------------
(* The Type Mapper *)

RECURSIVE denoFFIType(_, _)

\* variant: a struct keeps the fields that map and drops the others
denoFFIType_Partial(t, resolved) ==
    IF t.tag = ":struct" \/ t.tag = "struct"
    THEN IF ~t.hasFields
         THEN null
         ELSE LET fields == [k \in 1..Len(t.fields) |->
                                denoFFIType(t.fields[k].type, resolved)]
              IN  Aggregate(SelectSeq(fields, LAMBDA f : f # null))
    ELSE IF t.tag \in DOMAIN tagMapping
         THEN Native(tagMapping[t.tag])
         ELSE IF t.tag \in DOMAIN resolved THEN resolved[t.tag] ELSE null

\* variant: the resolved-typedef table is consulted before the fixed table
denoFFIType_TypedefFirst(t, resolved) ==
    IF t.tag = ":struct" \/ t.tag = "struct"
    THEN IF ~t.hasFields
         THEN null
         ELSE LET fields == [k \in 1..Len(t.fields) |->
                                denoFFIType(t.fields[k].type, resolved)]
              IN  IF \E k \in 1..Len(fields) : fields[k] = null
                  THEN null
                  ELSE Aggregate(fields)
    ELSE IF t.tag \in DOMAIN resolved
         THEN resolved[t.tag]
         ELSE IF t.tag \in DOMAIN tagMapping
              THEN Native(tagMapping[t.tag])
              ELSE null

denoFFIType(t, resolved) ==
    IF t.tag = ":struct" \/ t.tag = "struct"
    THEN IF ~t.hasFields
         THEN null
         ELSE LET fields == [k \in 1..Len(t.fields) |->
                                denoFFIType(t.fields[k].type, resolved)]
              IN  IF \E k \in 1..Len(fields) : fields[k] = null
                  THEN null
                  ELSE Aggregate(fields)
    ELSE IF t.tag \in DOMAIN tagMapping
         THEN Native(tagMapping[t.tag])
         ELSE IF t.tag \in DOMAIN resolved THEN resolved[t.tag] ELSE null

\* variant: a void parameter is passed on like any other type
denoFFIParameter_VoidAllowed(p, resolved) ==
    IF p.tag # "parameter" THEN Throw ELSE denoFFIType(p.type, resolved)

denoFFIParameter(p, resolved) ==
    IF p.tag # "parameter"
    THEN Throw
    ELSE LET ty == denoFFIType(p.type, resolved)
         IN  IF ty = Native("void") THEN Throw ELSE ty

-----------------------------------------------------------------------------
(* Definitions of the input list *)

Typedef(n, ty) ==
    [tag |-> "typedef", name |-> n, location |-> 0, type |-> ty,
     hasFields |-> FALSE, fields |-> <<>>,
     parameters |-> <<>>, returnType |-> Leaf(":void"),
     variadic |-> FALSE, inline |-> FALSE]

StructDef(n, has, fs) ==
    [tag |-> "struct", name |-> n, location |-> 0, type |-> Leaf(""),
     hasFields |-> has, fields |-> fs,
     parameters |-> <<>>, returnType |-> Leaf(":void"),
     variadic |-> FALSE, inline |-> FALSE]

Function(n, ps, ret, va, inl) ==
    [tag |-> "function", name |-> n, location |-> 0, type |-> Leaf(""),
     hasFields |-> FALSE, fields |-> <<>>,
     parameters |-> ps, returnType |-> ret,
     variadic |-> va, inline |-> inl]

Other(tg) ==
    [tag |-> tg, name |-> "", location |-> 0, type |-> Leaf(""),
     hasFields |-> FALSE, fields |-> <<>>,
     parameters |-> <<>>, returnType |-> Leaf(":void"),
     variadic |-> FALSE, inline |-> FALSE]

\* each record of the list is a distinct declaration: its location is its
\* position in the c2ffi output
Located(s) == [k \in 1..Len(s) |-> [s[k] EXCEPT !.location = k]]

Lists(D, n) == UNION {[1..m -> D] : m \in 0..n}

\* line 131: a struct definition is passed on as its own type
TypeOf(x) ==
    IF x.tag = "struct"
    THEN [tag |-> x.tag, hasFields |-> x.hasFields, fields |-> x.fields]
    ELSE x.type

-----------------------------------------------------------------------------
(* The loop body *)

\* lines 138-147: the second pass over the whole list, from position j on;
\* acc is the pair of the local result and the table as set so far
RECURSIVE ScanTypedefs(_, _, _, _)

ScanTypedefs(defs, j, x, acc) ==
    IF j > Len(defs)
    THEN acc
    ELSE LET y == defs[j]
         IN  IF y.tag = "typedef" /\ y.name = TypeOf(x).tag
             THEN LET r == denoFFIType(y.type, acc.resolved)
                  IN  ScanTypedefs(defs, j + 1, x,
                        [result |-> r,
                         resolved |-> IF r = null
                                      THEN acc.resolved
                                      ELSE MapSet(acc.resolved, x.name, r)])
             ELSE ScanTypedefs(defs, j + 1, x, acc)

\* lines 135-148: the result and the table when line 150 is reached
ResolveTypedef(defs, x, resolved) ==
    LET direct == denoFFIType(TypeOf(x), resolved)
    IN  IF direct = null
        THEN ScanTypedefs(defs, 1, x, [result |-> direct, resolved |-> resolved])
        ELSE [result |-> direct, resolved |-> resolved]

\* line 189: `${x.name} @ ${x.location}`
Doc(x) == [name |-> x.name, location |-> x.location]

MappedParameters(x, resolved) ==
    [k \in 1..Len(x.parameters) |-> denoFFIParameter(x.parameters[k], resolved)]

\* variant: only inline functions are skipped, variadic ones go on
FunctionOutcome_KeepsVariadic(x, resolved) ==
    LET parameters == MappedParameters(x, resolved)
        result == denoFFIType(x.returnType, resolved)
    IN  IF x.inline THEN "skip"
        ELSE IF \E k \in 1..Len(parameters) : parameters[k] = Throw THEN "throw"
        ELSE IF \E k \in 1..Len(parameters) : parameters[k] = null THEN "skip"
        ELSE IF result = null THEN "skip"
        ELSE "register"

\* variant: the return type is not tested for null
FunctionOutcome_NoReturnCheck(x, resolved) ==
    LET parameters == MappedParameters(x, resolved)
    IN  IF x.inline \/ x.variadic THEN "skip"
        ELSE IF \E k \in 1..Len(parameters) : parameters[k] = Throw THEN "throw"
        ELSE IF \E k \in 1..Len(parameters) : parameters[k] = null THEN "skip"
        ELSE "register"

\* variant: the function is judged against the table extended with every
\* typedef of the list that maps directly, wherever it stands
FunctionOutcome_Lookahead(x, resolved) ==
    LET ahead == {k \in 1..Len(symbols) :
                    /\ symbols[k].tag = "typedef"
                    /\ symbols[k].name \notin DOMAIN resolved
                    /\ denoFFIType(symbols[k].type, resolved) # null}
        names == {symbols[k].name : k \in ahead}
        table == [n \in DOMAIN resolved \cup names |->
                    IF n \in DOMAIN resolved
                    THEN resolved[n]
                    ELSE denoFFIType(
                           symbols[CHOOSE k \in ahead : symbols[k].name = n].type,
                           resolved)]
        parameters == MappedParameters(x, table)
        result == denoFFIType(x.returnType, table)
    IN  IF x.inline \/ x.variadic THEN "skip"
        ELSE IF \E k \in 1..Len(parameters) : parameters[k] = Throw THEN "throw"
        ELSE IF \E k \in 1..Len(parameters) : parameters[k] = null THEN "skip"
        ELSE IF result = null THEN "skip"
        ELSE "register"

\* lines 159-192 for a function definition x: what the case does
FunctionOutcome(x, resolved) ==
    LET parameters == MappedParameters(x, resolved)
        result == denoFFIType(x.returnType, resolved)
    IN  IF x.inline \/ x.variadic THEN "skip"
        ELSE IF \E k \in 1..Len(parameters) : parameters[k] = Throw THEN "throw"
        ELSE IF \E k \in 1..Len(parameters) : parameters[k] = null THEN "skip"
        ELSE IF result = null THEN "skip"
        ELSE "register"

\* variant: the parameters are stored last first
Symbol_Reversed(x, resolved) ==
    [parameters |-> [k \in 1..Len(x.parameters) |->
                       MappedParameters(x, resolved)[Len(x.parameters) + 1 - k]],
     result |-> denoFFIType(x.returnType, resolved),
     doc |-> Doc(x)]

\* lines 186-190
Symbol(x, resolved) ==
    [parameters |-> MappedParameters(x, resolved),
     result |-> denoFFIType(x.returnType, resolved),
     doc |-> Doc(x)]

Current == symbols[i]

InLoop == pc = "loop" /\ i <= Len(symbols)

ProcessTypedef ==
    /\ InLoop
    /\ Current.tag \in {"struct", "typedef"}
    /\ LET r == ResolveTypedef(symbols, Current, resolvedTypeDefs)
       IN  IF r.result = null
           THEN /\ resolvedTypeDefs' = r.resolved
                /\ UNCHANGED generatedTypeDefs
           ELSE /\ resolvedTypeDefs' = MapSet(r.resolved, Current.name, r.result)
                /\ generatedTypeDefs' = generatedTypeDefs + 1
    /\ totalTypeDefs' = totalTypeDefs + 1
    /\ i' = i + 1
    /\ UNCHANGED <<symbols, pc, symbolSource, total, generated, unknowns, output>>

ProcessFunction ==
    /\ InLoop
    /\ Current.tag = "function"
    /\ total' = total + 1
    /\ LET o == FunctionOutcome(Current, resolvedTypeDefs)
       IN  /\ pc' = IF o = "throw" THEN "aborted" ELSE pc
           /\ i' = IF o = "throw" THEN i ELSE i + 1
           /\ symbolSource' =
                IF o = "register"
                THEN MapSet(symbolSource, Current.name,
                            Symbol(Current, resolvedTypeDefs))
                ELSE symbolSource
           /\ generated' = IF o = "register" THEN generated + 1 ELSE generated
    /\ UNCHANGED <<symbols, resolvedTypeDefs, totalTypeDefs, generatedTypeDefs,
                   unknowns, output>>

ProcessUnknown ==
    /\ InLoop
    /\ Current.tag \notin {"struct", "typedef", "function"}
    /\ unknowns' = MapSet(unknowns, Current.tag,
                          (IF Current.tag \in DOMAIN unknowns
                           THEN unknowns[Current.tag] ELSE 0) + 1)
    /\ i' = i + 1
    /\ UNCHANGED <<symbols, pc, resolvedTypeDefs, symbolSource, total, generated,
                   totalTypeDefs, generatedTypeDefs, output>>

NoOutput == [printed |-> FALSE]

\* `result: "${result}"` of line 225: the template string of a NativeType
ResultText(r) == IF r.kind = "struct" THEN "[object Object]" ELSE r.kind

\* lines 203-236
Emit ==
    /\ pc = "loop"
    /\ i > Len(symbols)
    /\ output' =
         [printed |-> TRUE,
          unknowns |-> unknowns,
          functions |-> [total |-> total, generated |-> generated,
                         skipped |-> total - generated],
          typedefs |-> [total |-> totalTypeDefs, generated |-> generatedTypeDefs,
                        skipped |-> totalTypeDefs - generatedTypeDefs],
          source |-> [n \in DOMAIN symbolSource |->
                        [doc |-> symbolSource[n].doc,
                         parameters |-> symbolSource[n].parameters,
                         result |-> ResultText(symbolSource[n].result)]]]
    /\ pc' = "done"
    /\ UNCHANGED <<symbols, i, resolvedTypeDefs, symbolSource, total, generated,
                   totalTypeDefs, generatedTypeDefs, unknowns>>

Next == ProcessTypedef \/ ProcessFunction \/ ProcessUnknown \/ Emit

-----------------------------------------------------------------------------
(* Inputs *)

Start(defs) ==
    /\ symbols = Located(defs)
    /\ i = 1
    /\ pc = "loop"
    /\ resolvedTypeDefs = EmptyMap
    /\ symbolSource = EmptyMap
    /\ total = 0
    /\ generated = 0
    /\ totalTypeDefs = 0
    /\ generatedTypeDefs = 0
    /\ unknowns = EmptyMap
    /\ output = NoOutput

\* function-centred lists: every order and repetition of up to MaxDefs of these
FunctionParameterLists ==
    {<<Parameter("parameter", Leaf(":int")), Parameter("parameter", Leaf(":long"))>>,
     <<Parameter("parameter", Leaf(":long"))>>,
     <<Parameter("parameter", Leaf("A"))>>,
     <<Parameter("parameter", Leaf(":void"))>>,
     <<Parameter("param", Leaf(":int"))>>,
     <<Parameter("parameter", Leaf("U")), Parameter("parameter", Leaf(":void"))>>}

FunctionDefs ==
    {Function("f", ps, Leaf(":int"), FALSE, FALSE) : ps \in FunctionParameterLists}
    \cup {Function("f", <<Parameter("parameter", Leaf(":int")),
                          Parameter("parameter", Leaf(":long"))>>,
                    Leaf(r), FALSE, FALSE) : r \in {":long", "A"}}
    \cup {Function("g", <<Parameter("parameter", Leaf(":long"))>>, Leaf(":int"), va, inl) :
            va \in BOOLEAN, inl \in BOOLEAN}

FunctionSideDefs ==
    FunctionDefs
    \cup {Typedef("A", Leaf(t)) : t \in {":int", ":long", ":void"}}
    \cup {Other("enum")}

Init == \E defs \in Lists(FunctionSideDefs, MaxDefs) : Start(defs)

Spec == Init /\ [][Next]_vars

\* typedef-centred lists
TypedefDefs ==
    {Typedef(n, Leaf(t)) : n \in {"A", "B", "__uint32_t"},
                           t \in {":int", ":long", "B", "U"}}

StructDefs ==
    {StructDef("B", TRUE, <<Field(Leaf(":int")), Field(Leaf(":long"))>>),
     StructDef("B", TRUE, <<Field(Leaf(":int")), Field(Leaf("U"))>>),
     StructDef("B", FALSE, <<>>)}

TypedefSideDefs ==
    TypedefDefs \cup StructDefs
    \cup {Function("f", <<Parameter("parameter", Leaf("A"))>>, Leaf("B"), FALSE, FALSE)}
    \cup {Other("enum")}

InitTypedefs == \E defs \in Lists(TypedefSideDefs, MaxDefs) : Start(defs)

SpecTypedefs == InitTypedefs /\ [][Next]_vars

\* struct-centred lists: a typedef A, then a struct S (as a struct definition
\* or as a typedef of a struct type) whose fields, nested one level, name
\* primitives and A, then a function taking and returning S
FieldLeaves == {Leaf(":int"), Leaf("A")}

FieldLists(types) == UNION {[1..m -> {Field(ty) : ty \in types}] : m \in 0..MaxFields}

InnerStructs ==
    {StructType(":struct", fs) : fs \in FieldLists(FieldLeaves)} \cup {Leaf(":struct")}

OuterFieldLists == FieldLists(FieldLeaves \cup InnerStructs)

StructSideDefs ==
    {StructDef("S", TRUE, fs) : fs \in OuterFieldLists}
    \cup {StructDef("S", FALSE, <<>>)}
    \cup {Typedef("S", StructType(":struct", fs)) : fs \in OuterFieldLists}

StructSideLists ==
    {<<Typedef("A", Leaf(l)), s,
       Function("f", <<Parameter("parameter", Leaf("S"))>>, Leaf("S"), FALSE, FALSE)>> \o rest :
        l \in {":long", "U"}, s \in StructSideDefs, rest \in {<<>>, <<Other("enum")>>}}

InitStructs == \E defs \in StructSideLists : Start(defs)

SpecStructs == InitStructs /\ [][Next]_vars

-----------------------------------------------------------------------------
(* Properties *)

StructTag(t) == t.tag = ":struct" \/ t.tag = "struct"

\* x is a function that is neither inline nor variadic, whose parameters are
\* all tagged "parameter" and map to a NativeType other than void, and whose
\* return type maps, all under the table resolved
Qualifies(x, resolved) ==
    /\ x.tag = "function"
    /\ ~x.inline
    /\ ~x.variadic
    /\ \A k \in 1..Len(x.parameters) :
          /\ x.parameters[k].tag = "parameter"
          /\ denoFFIType(x.parameters[k].type, resolved) \notin {null, Native("void")}
    /\ denoFFIType(x.returnType, resolved) # null

\* x is a function that is neither inline nor variadic and has a parameter
\* with a wrong tag or of a type that maps to void
Offending(x, resolved) ==
    /\ x.tag = "function"
    /\ ~x.inline
    /\ ~x.variadic
    /\ \E k \in 1..Len(x.parameters) :
          \/ x.parameters[k].tag # "parameter"
          \/ denoFFIType(x.parameters[k].type, resolved) = Native("void")

\* x is a function that is neither inline nor variadic, with correctly tagged
\* parameters none of which is void, and with an unmapped parameter or an
\* unmapped return type
Unmapped(x, resolved) ==
    /\ x.tag = "function"
    /\ ~x.inline
    /\ ~x.variadic
    /\ ~Offending(x, resolved)
    /\ \/ \E k \in 1..Len(x.parameters) :
             denoFFIType(x.parameters[k].type, resolved) = null
       \/ denoFFIType(x.returnType, resolved) = null

\* the definition at position k has been processed
Processed(k) == k \in 1..(i - 1)

\* C1: at every point of the pass every entry of the symbol table was written
\* by a processed function definition of that name that is neither variadic
\* nor inline, and holds a NativeType for each of its parameters and for its
\* result; and a step writes or changes the entry of a name only when it
\* processes a function of that name that is neither variadic nor inline and
\* whose parameters and return type all map.
C1_OnlyMappedFunctions ==
    /\ [](\A n \in DOMAIN symbolSource :
            LET e == symbolSource[n]
                k == e.doc.location
            IN  /\ Processed(k)
                /\ symbols[k].tag = "function"
                /\ symbols[k].name = n
                /\ ~symbols[k].variadic
                /\ ~symbols[k].inline
                /\ Len(e.parameters) = Len(symbols[k].parameters)
                /\ \A j \in 1..Len(e.parameters) :
                      e.parameters[j] \notin {null, Throw, Native("void")}
                /\ e.result \notin {null, Throw})
    /\ [][\A n \in DOMAIN symbolSource' :
            (n \notin DOMAIN symbolSource \/ symbolSource'[n] # symbolSource[n])
            => /\ InLoop
               /\ Current.name = n
               /\ Qualifies(Current, resolvedTypeDefs)]_vars

\* a variadic function whose parameter and return type map was processed and
\* its name is absent from the table, which holds another function
C1_Witness ==
    \E k \in 1..Len(symbols) :
        /\ Processed(k)
        /\ symbols[k].tag = "function"
        /\ symbols[k].variadic
        /\ ~symbols[k].inline
        /\ denoFFIType(symbols[k].parameters[1].type, resolvedTypeDefs) = Native("i64")
        /\ denoFFIType(symbols[k].returnType, resolvedTypeDefs) = Native("i32")
        /\ symbols[k].name \notin DOMAIN symbolSource
        /\ DOMAIN symbolSource # {}

\* C2 as stated: when the pass has ended, every function definition that is
\* neither inline nor variadic and whose parameter and return types are all
\* in the fixed table has its own mapped parameters, in order, and its own
\* mapped result under its name in the symbol table.
C2_Original ==
    pc = "done" =>
        \A k \in 1..Len(symbols) :
            Qualifies(symbols[k], EmptyMap) =>
                /\ symbols[k].name \in DOMAIN symbolSource
                /\ symbolSource[symbols[k].name].parameters =
                     [j \in 1..Len(symbols[k].parameters) |->
                        denoFFIType(symbols[k].parameters[j].type, EmptyMap)]
                /\ symbolSource[symbols[k].name].result =
                     denoFFIType(symbols[k].returnType, EmptyMap)

\* C2 amended: processing a function definition that is neither inline nor
\* variadic and whose parameters and return type all map leaves one entry
\* under its name: the mapped parameters in declared order, the mapped result
\* and the doc of that definition; an entry is never removed, and it changes
\* only when a later such definition of the same name is processed, which
\* replaces it.
C2_LastDefinitionRegistered ==
    [][/\ (InLoop /\ Qualifies(Current, resolvedTypeDefs)) =>
            /\ Current.name \in DOMAIN symbolSource'
            /\ LET e == symbolSource'[Current.name]
               IN  /\ Len(e.parameters) = Len(Current.parameters)
                   /\ \A k \in 1..Len(Current.parameters) :
                         e.parameters[k] =
                           denoFFIType(Current.parameters[k].type, resolvedTypeDefs)
                   /\ e.result = denoFFIType(Current.returnType, resolvedTypeDefs)
                   /\ e.doc = [name |-> Current.name, location |-> i]
       /\ \A n \in DOMAIN symbolSource :
            /\ n \in DOMAIN symbolSource'
            /\ symbolSource'[n] # symbolSource[n] =>
                 (InLoop /\ Current.name = n /\ Qualifies(Current, resolvedTypeDefs))
      ]_vars

\* f(:int, :long) is registered in that order, in place of an earlier f(:long)
C2_Witness ==
    /\ "f" \in DOMAIN symbolSource
    /\ symbolSource["f"].parameters = <<Native("i32"), Native("i64")>>
    /\ \E k \in 1..Len(symbols) :
          /\ k < symbolSource["f"].doc.location
          /\ symbols[k].name = "f"
          /\ Qualifies(symbols[k], EmptyMap)
          /\ Len(symbols[k].parameters) = 1

\* C3 as stated: once a name has an entry in the resolved-typedef table, the
\* entry stays and its NativeType never changes.
C3_Original ==
    [][\A n \in DOMAIN resolvedTypeDefs :
          /\ n \in DOMAIN resolvedTypeDefs'
          /\ resolvedTypeDefs'[n] = resolvedTypeDefs[n]]_vars

\* the struct types of a type: itself and those nested in its fields
RECURSIVE StructTypesIn(_)

StructTypesIn(t) ==
    IF StructTag(t)
    THEN {t} \cup UNION {StructTypesIn(t.fields[k].type) : k \in 1..Len(t.fields)}
    ELSE {}

InputStructTypes ==
    UNION {StructTypesIn(TypeOf(symbols[k])) :
             k \in {j \in 1..Len(symbols) : symbols[j].tag \in {"struct", "typedef"}}}

FieldsMapped(t, resolved) ==
    [k \in 1..Len(t.fields) |-> denoFFIType(t.fields[k].type, resolved)]

\* C4: in every state, every struct type of the input (nested ones too) maps
\* to the aggregate of its fields' NativeTypes in field order when it has a
\* field list and every field maps, and to null otherwise; the struct S is in
\* the resolved-typedef table exactly when it was processed and every field
\* maps, the stored value is that full aggregate, and the symbol of a function
\* taking and returning S holds that same aggregate.
C4_NoPartialAggregate ==
    /\ \A t \in InputStructTypes :
          LET mapped == FieldsMapped(t, resolvedTypeDefs)
          IN  IF t.hasFields /\ \A k \in 1..Len(mapped) : mapped[k] # null
              THEN denoFFIType(t, resolvedTypeDefs) = [kind |-> "struct", struct |-> mapped]
              ELSE denoFFIType(t, resolvedTypeDefs) = null
    /\ \A k \in 1..Len(symbols) :
          (symbols[k].tag \in {"struct", "typedef"} /\ StructTag(TypeOf(symbols[k]))) =>
              LET t == TypeOf(symbols[k])
                  mapped == FieldsMapped(t, resolvedTypeDefs)
                  whole == t.hasFields /\ \A j \in 1..Len(mapped) : mapped[j] # null
              IN  /\ symbols[k].name \in DOMAIN resolvedTypeDefs <=> (Processed(k) /\ whole)
                  /\ symbols[k].name \in DOMAIN resolvedTypeDefs =>
                       /\ resolvedTypeDefs[symbols[k].name].kind = "struct"
                       /\ resolvedTypeDefs[symbols[k].name].struct = mapped
    /\ \A n \in DOMAIN symbolSource :
          /\ "S" \in DOMAIN resolvedTypeDefs
          /\ symbolSource[n].parameters = <<resolvedTypeDefs["S"]>>
          /\ symbolSource[n].result = resolvedTypeDefs["S"]

\* a struct of two fields, the first mapped and the second not, was processed
\* and nothing was stored for it
C4_Witness ==
    /\ Processed(2)
    /\ "S" \notin DOMAIN resolvedTypeDefs
    /\ TypeOf(symbols[2]).hasFields
    /\ Len(TypeOf(symbols[2]).fields) = 2
    /\ FieldsMapped(TypeOf(symbols[2]), resolvedTypeDefs)[1] # null
    /\ FieldsMapped(TypeOf(symbols[2]), resolvedTypeDefs)[2] = null

\* the typedefs of the list, other than the current one, that bear the name
\* the current typedef's underlying type refers to and whose own underlying
\* type maps directly
ReferencedTypedefs ==
    {k \in 1..Len(symbols) :
        /\ k # i
        /\ symbols[k].tag = "typedef"
        /\ symbols[k].name = Current.type.tag
        /\ denoFFIType(symbols[k].type, resolvedTypeDefs) # null}

\* C5 as stated: processing a typedef A whose underlying type tag is the name
\* of another typedef B of the list, B's underlying type being directly
\* mappable, registers A with the NativeType of such a B and counts A as
\* generated.
C5_Original ==
    [][(InLoop /\ Current.tag = "typedef" /\ ReferencedTypedefs # {}) =>
          /\ Current.name \in DOMAIN resolvedTypeDefs'
          /\ \E k \in ReferencedTypedefs :
                resolvedTypeDefs'[Current.name] =
                  denoFFIType(symbols[k].type, resolvedTypeDefs)
          /\ generatedTypeDefs' = generatedTypeDefs + 1]_vars

\* C6: a step that reaches a function that is neither inline nor variadic and
\* has a wrongly tagged parameter or a parameter whose type maps to void
\* aborts the run: the symbol table and generated are unchanged and the loop
\* does not advance; no step is ever taken from the aborted state, in which
\* nothing has been printed.
C6_FatalAbort ==
    /\ [](pc = "aborted" => output = NoOutput)
    /\ [][/\ pc # "aborted"
          /\ (InLoop /\ Offending(Current, resolvedTypeDefs)) =>
                /\ pc' = "aborted"
                /\ i' = i
                /\ symbolSource' = symbolSource
                /\ generated' = generated
                /\ output' = NoOutput]_vars

\* the run was aborted by a parameter whose type is a typedef resolved to void
C6_Witness ==
    /\ pc = "aborted"
    /\ "A" \in DOMAIN resolvedTypeDefs
    /\ resolvedTypeDefs["A"] = Native("void")
    /\ Current.parameters[1].type.tag = "A"
    /\ Current.name \notin DOMAIN symbolSource
    /\ i < Len(symbols)

\* C7: a step that processes a function that is neither inline nor variadic,
\* with correctly tagged parameters none of which is void, and with an
\* unmapped parameter or return type adds one to total, leaves generated, the
\* symbol table and the resolved-typedef table unchanged, and moves the loop
\* to the next definition.
C7_RecoverableSkip ==
    [][(InLoop /\ Unmapped(Current, resolvedTypeDefs)) =>
          /\ total' = total + 1
          /\ generated' = generated
          /\ symbolSource' = symbolSource
          /\ resolvedTypeDefs' = resolvedTypeDefs
          /\ i' = i + 1
          /\ pc' = "loop"]_vars

\* such a function was just skipped and the pass is at the next definition
C7_Witness ==
    /\ pc = "loop"
    /\ i > 1
    /\ i <= Len(symbols)
    /\ Unmapped(symbols[i - 1], resolvedTypeDefs)
    /\ total = 1
    /\ generated = 0

\* C8 as stated: when the pass has ended, every function that is neither
\* inline nor variadic and whose parameters and return type map with the
\* typedefs the run resolved is in the symbol table.
C8_Original ==
    pc = "done" =>
        \A k \in 1..Len(symbols) :
            Qualifies(symbols[k], resolvedTypeDefs) =>
                symbols[k].name \in DOMAIN symbolSource

\* the types of a function's signature
SignatureTypes(x) ==
    {x.parameters[k].type : k \in 1..Len(x.parameters)} \cup {x.returnType}

\* C8 amended: the resolved-typedef table holds only names of definitions
\* standing before the loop position; a function whose signature names a tag
\* that is neither in the fixed table nor yet in the resolved-typedef table is
\* not registered, and a function that is neither inline nor variadic and
\* whose parameters and return type map with the table as it stands is
\* registered.
C8_MappedAgainstTableSoFar ==
    /\ [](DOMAIN resolvedTypeDefs \subseteq
            {symbols[k].name :
               k \in {j \in 1..Len(symbols) :
                        Processed(j) /\ symbols[j].tag \in {"struct", "typedef"}}})
    /\ [][(InLoop /\ Current.tag = "function") =>
            /\ (\E t \in SignatureTypes(Current) :
                   /\ ~StructTag(t)
                   /\ t.tag \notin DOMAIN tagMapping
                   /\ t.tag \notin DOMAIN resolvedTypeDefs)
               => (symbolSource' = symbolSource /\ generated' = generated)
            /\ Qualifies(Current, resolvedTypeDefs)
               => (Current.name \in DOMAIN symbolSource' /\ generated' = generated + 1)
         ]_vars

\* the pass ended with a function skipped whose typedef was resolved by a
\* definition standing after it
C8_Witness ==
    /\ pc = "done"
    /\ \E k \in 1..Len(symbols) :
          /\ Qualifies(symbols[k], resolvedTypeDefs)
          /\ symbols[k].parameters[1].type.tag = "A"
          /\ symbols[k].name \notin DOMAIN symbolSource

ProbeTags == {"A", "B", "U", "S", "size_t", "enum", ""}

C10_Original ==
    [][(InLoop /\ Current.tag \in {"struct", "typedef"}) =>
          IF generatedTypeDefs' = generatedTypeDefs + 1
          THEN Current.name \in DOMAIN resolvedTypeDefs'
          ELSE resolvedTypeDefs' = resolvedTypeDefs]_vars

====
